---- MODULE Spec2Model ----
(***************************************************************************)
(* Model of ScriptCuentas.py: the amount/date codec, parseTransactions,    *)
(* the per-event aggregation (calculateEvent and its helpers), the two     *)
(* summary writers (writeEvents, writeLossProfit) and the main pipeline.   *)
(*                                                                         *)
(* A Python str is a sequence of characters; a character is a TLA+ string  *)
(* atom ("1", ";", ...).  The euro sign is the atom EURO, the line         *)
(* terminator the atom NL.  A call that can raise returns a record         *)
(* [ok, val]: ok = FALSE stands for the raised exception.                  *)
(***************************************************************************)
EXTENDS Integers, Sequences, FiniteSets, TLC

VARIABLES
    pc,           \* position of the main script
    file,         \* the lines of the input file, in order
    grantNames,   \* --grants
    taxNames,     \* --taxes
    transactions, \* result of parseTransactions
    eventNames,   \* result of parseTransactions
    balances,     \* event name -> aggregate, for the events computed so far
    sheets,       \* names of the per-event sheets created so far
    summary,      \* what writeEvents wrote on "Final Summary"
    liquidity,    \* the four balances read by writeEvents
    lossProfit,   \* what writeLossProfit wrote on "Loss&Profit"
    saved,        \* wb.save has run
    cpc,          \* codec harness: position
    cInt,         \* codec harness: integer input of formatAmount
    cStr,         \* codec harness: string input of parseAmount
    cRes          \* codec harness: result of parseAmount

vars == <<pc, file, grantNames, taxNames, transactions, eventNames, balances,
          sheets, summary, liquidity, lossProfit, saved,
          cpc, cInt, cStr, cRes>>

mainVars == <<pc, file, grantNames, taxNames, transactions, eventNames,
              balances, sheets, summary, liquidity, lossProfit, saved>>

codecVars == <<cpc, cInt, cStr, cRes>>

----------------------------------------------------------------------------
(* Bounds of the model. *)

MaxLines == 3       \* data lines of a file in the pipeline specification
MaxParseLines == 2  \* lines after the headers in the parser specification
MaxLen == 4         \* length of an enumerated amount string
MaxCents == 130     \* magnitude of an enumerated amount in cents

----------------------------------------------------------------------------
(* Characters and Python str primitives. *)

EURO == "EUR"
NL == "\n"

Digits == {"0", "1", "2", "3", "4", "5", "6", "7", "8", "9"}

DigitVal(c) ==
    CASE c = "0" -> 0 [] c = "1" -> 1 [] c = "2" -> 2 [] c = "3" -> 3
      [] c = "4" -> 4 [] c = "5" -> 5 [] c = "6" -> 6 [] c = "7" -> 7
      [] c = "8" -> 8 [] c = "9" -> 9

DigitChar(d) ==
    CASE d = 0 -> "0" [] d = 1 -> "1" [] d = 2 -> "2" [] d = 3 -> "3"
      [] d = 4 -> "4" [] d = 5 -> "5" [] d = 6 -> "6" [] d = 7 -> "7"
      [] d = 8 -> "8" [] d = 9 -> "9"

Whitespace == {" ", NL}

Err == [ok |-> FALSE, val |-> 0]
Ok(v) == [ok |-> TRUE, val |-> v]

\* s[:n] for n >= 0
Take(s, n) == SubSeq(s, 1, IF n < Len(s) THEN n ELSE Len(s))

\* s[n:] for n >= 0
Drop(s, n) == SubSeq(s, n + 1, Len(s))

\* s[:-n] for n > 0
ButLast(s, n) == Take(s, IF Len(s) > n THEN Len(s) - n ELSE 0)

\* s[-n:] for n > 0
Last(s, n) == Drop(s, IF Len(s) > n THEN Len(s) - n ELSE 0)

\* s.replace(c, '')
Remove(s, c) == SelectSeq(s, LAMBDA x : x # c)

RECURSIVE LStrip(_)
LStrip(s) ==
    IF s # <<>> /\ Head(s) \in Whitespace THEN LStrip(Tail(s)) ELSE s

RECURSIVE RStrip(_)
RStrip(s) ==
    IF s # <<>> /\ s[Len(s)] \in Whitespace
    THEN RStrip(SubSeq(s, 1, Len(s) - 1)) ELSE s

\* s.split(sep): the fields between the separators, at least one
RECURSIVE Split(_, _)
Split(s, sep) ==
    IF \A i \in 1..Len(s) : s[i] # sep THEN <<s>>
    ELSE LET i == CHOOSE j \in 1..Len(s) :
                    s[j] = sep /\ \A h \in 1..(j - 1) : s[h] # sep
         IN <<SubSeq(s, 1, i - 1)>> \o Split(Drop(s, i), sep)

RECURSIVE DigitsValue(_)
DigitsValue(s) ==
    IF s = <<>> THEN 0
    ELSE 10 * DigitsValue(SubSeq(s, 1, Len(s) - 1)) + DigitVal(s[Len(s)])

\* the digit groups int() accepts: digits, single underscores between them
IntBody(s) ==
    /\ s # <<>>
    /\ \A i \in 1..Len(s) : s[i] \in Digits \cup {"_"}
    /\ s[1] # "_" /\ s[Len(s)] # "_"
    /\ \A i \in 1..(Len(s) - 1) : ~(s[i] = "_" /\ s[i + 1] = "_")

\* int(s) of a str: surrounding whitespace, one optional sign, the digits
PyInt(s) ==
    LET t == RStrip(LStrip(s))
        signed == t # <<>> /\ t[1] \in {"+", "-"}
        body == IF signed THEN Tail(t) ELSE t
    IN IF IntBody(body)
       THEN Ok((IF signed /\ t[1] = "-" THEN -1 ELSE 1)
               * DigitsValue(Remove(body, "_")))
       ELSE Err

RECURSIVE NatStr(_)
NatStr(n) ==
    IF n < 10 THEN <<DigitChar(n)>>
    ELSE NatStr(n \div 10) \o <<DigitChar(n % 10)>>

\* str(n) of an int
PyStr(n) == IF n < 0 THEN <<"-">> \o NatStr(-n) ELSE NatStr(n)

----------------------------------------------------------------------------
(* The amount codec. *)

formatAmountNoSuffix(amount) ==
    IF amount = 0 THEN <<"0", ",", "0", "0">>
    ELSE LET amountStr == PyStr(amount)
         IN ButLast(amountStr, 2) \o <<",">> \o Last(amountStr, 2)

formatAmount(amount) ==
    IF amount = 0 THEN <<"0", ",", "0", "0">>
    ELSE LET amountStr == PyStr(amount)
         IN ButLast(amountStr, 2) \o <<",">> \o Last(amountStr, 2)
            \o <<" ", EURO>>

parseAmount(amount) ==
    IF amount = <<>> THEN Err
    ELSE IF amount[1] = "-"
         THEN LET r == PyInt(Remove(Remove(Tail(amount), ","), "."))
              IN IF r.ok THEN Ok(-1 * r.val) ELSE Err
         ELSE PyInt(Remove(Remove(amount, ","), "."))

parseAdvance(advance) == advance = <<"Y">>

----------------------------------------------------------------------------
(* The date codec.  datetime.strptime(date, '%d/%m/%Y') is library code:   *)
(* it is modelled by the strings it accepts (day and month of one or two   *)
(* digits, a year of four digits, a day that exists in the month).  The    *)
(* timestamp is modelled by a day ordinal: it orders and distinguishes     *)
(* the dates as the millisecond timestamp does, which is all the program   *)
(* uses it for.                                                            *)

AllDigits(s) == \A i \in 1..Len(s) : s[i] \in Digits

DaysInMonth(m, y) ==
    IF m \in {4, 6, 9, 11} THEN 30
    ELSE IF m # 2 THEN 31
    ELSE IF (y % 4 = 0 /\ y % 100 # 0) \/ y % 400 = 0 THEN 29 ELSE 28

parseDate(date) ==
    LET parts == Split(date, "/")
    IN IF Len(parts) # 3 THEN Err
       ELSE LET d == parts[1]
                m == parts[2]
                y == parts[3]
                shape == /\ Len(d) \in {1, 2} /\ AllDigits(d)
                         /\ Len(m) \in {1, 2} /\ AllDigits(m)
                         /\ Len(y) = 4 /\ AllDigits(y)
            IN IF ~shape THEN Err
               ELSE LET dv == DigitsValue(d)
                        mv == DigitsValue(m)
                        yv == DigitsValue(y)
                    IN IF /\ yv >= 1 /\ mv \in 1..12
                          /\ dv >= 1 /\ dv <= DaysInMonth(mv, yv)
                       THEN Ok((yv * 12 + (mv - 1)) * 31 + (dv - 1))
                       ELSE Err

----------------------------------------------------------------------------
(* parseTransactions. *)

\* line[:-1].split(';')
lineFields(line) == Split(ButLast(line, 1), ";")

\* one iteration of the loop: the transaction of a line, or the exception
parseLine(line) ==
    LET dataArray == lineFields(line)
    IN IF Len(dataArray) < 10 THEN Err
       ELSE LET date == parseDate(dataArray[2])
                amount == parseAmount(dataArray[4])
            IN IF ~date.ok \/ ~amount.ok THEN Err
               ELSE Ok([movement |-> dataArray[1],
                        date |-> date.val,
                        info |-> dataArray[3],
                        amount |-> amount.val,
                        name |-> dataArray[5],
                        event |-> dataArray[6],
                        concept |-> dataArray[7],
                        advance |-> parseAdvance(dataArray[8]),
                        origin |-> dataArray[9],
                        comment |-> dataArray[10]])

InSeq(x, s) == \E i \in 1..Len(s) : s[i] = x

RECURSIVE parseLoopNoDedup(_, _, _)
parseLoopNoDedup(lines, txs, names) ==
    IF lines = <<>>
    THEN [ok |-> TRUE, transactions |-> txs, eventNames |-> names]
    ELSE LET t == parseLine(Head(lines))
         IN IF ~t.ok
            THEN [ok |-> FALSE, transactions |-> <<>>, eventNames |-> <<>>]
            ELSE parseLoopNoDedup(Tail(lines), Append(txs, t.val),
                                  Append(names, t.val.event))

RECURSIVE parseLoop(_, _, _)
parseLoop(lines, txs, names) ==
    IF lines = <<>>
    THEN [ok |-> TRUE, transactions |-> txs, eventNames |-> names]
    ELSE LET t == parseLine(Head(lines))
         IN IF ~t.ok
            THEN [ok |-> FALSE, transactions |-> <<>>, eventNames |-> <<>>]
            ELSE parseLoop(Tail(lines), Append(txs, t.val),
                           IF InSeq(t.val.event, names) THEN names
                           ELSE Append(names, t.val.event))

\* next(inputFile) twice, then the loop over the remaining lines
parseTransactions(f) ==
    IF Len(f) < 2
    THEN [ok |-> FALSE, transactions |-> <<>>, eventNames |-> <<>>]
    ELSE parseLoop(Drop(f, 2), <<>>, <<>>)

----------------------------------------------------------------------------
(* The aggregation. *)

CAIXA == <<"C", "A", "I", "X", "A">>
PAYPAL == <<"P", "A", "Y", "P", "A", "L">>

RECURSIVE sumAmounts(_)
sumAmounts(ts) ==
    IF ts = <<>> THEN 0 ELSE Head(ts).amount + sumAmounts(Tail(ts))

calulcateGrossAnyOrigin(transactionsEventLoss, transactionsEventProfit, origin) ==
    LET grossLoss == sumAmounts(transactionsEventLoss)
        grossProfit == sumAmounts(transactionsEventProfit)
    IN [grossLoss |-> grossLoss,
        grossProfit |-> grossProfit,
        grossBalance |-> grossLoss + grossProfit]

calulcateGrossSubtracts(transactionsEventLoss, transactionsEventProfit, origin) ==
    LET transactionsLoss ==
            SelectSeq(transactionsEventLoss, LAMBDA t : t.origin = origin)
        transactionsProfit ==
            SelectSeq(transactionsEventProfit, LAMBDA t : t.origin = origin)
        grossLoss == sumAmounts(transactionsLoss)
        grossProfit == sumAmounts(transactionsProfit)
    IN [grossLoss |-> grossLoss,
        grossProfit |-> grossProfit,
        grossBalance |-> grossLoss - grossProfit]

calulcateGross(transactionsEventLoss, transactionsEventProfit, origin) ==
    LET transactionsLoss ==
            SelectSeq(transactionsEventLoss, LAMBDA t : t.origin = origin)
        transactionsProfit ==
            SelectSeq(transactionsEventProfit, LAMBDA t : t.origin = origin)
        grossLoss == sumAmounts(transactionsLoss)
        grossProfit == sumAmounts(transactionsProfit)
    IN [grossLoss |-> grossLoss,
        grossProfit |-> grossProfit,
        grossBalance |-> grossLoss + grossProfit]

RECURSIVE conceptLoop(_, _)
conceptLoop(ts, conceptNames) ==
    IF ts = <<>> THEN conceptNames
    ELSE conceptLoop(Tail(ts),
                     IF InSeq(Head(ts).concept, conceptNames) THEN conceptNames
                     ELSE Append(conceptNames, Head(ts).concept))

getEventConceptNames(ts) == conceptLoop(ts, <<>>)

RECURSIVE lossConceptLoop(_, _, _, _)
lossConceptLoop(conceptNames, transactionsLoss, concepts, total) ==
    IF conceptNames = <<>> THEN [concepts |-> concepts, total |-> total]
    ELSE LET conceptName == Head(conceptNames)
             amount == sumAmounts(SelectSeq(transactionsLoss,
                          LAMBDA t : t.concept = conceptName /\ ~t.advance))
         IN lossConceptLoop(Tail(conceptNames), transactionsLoss,
                            Append(concepts, [name |-> conceptName,
                                              amount |-> amount]),
                            total + amount)

calculateEventLossConceptsWithAdvance(conceptNames, transactionsLoss) ==
    lossConceptLoop(conceptNames,
                    [i \in 1..Len(transactionsLoss) |->
                        [transactionsLoss[i] EXCEPT !.advance = FALSE]],
                    <<>>, 0)

calculateEventLossConcepts(conceptNames, transactionsLoss) ==
    lossConceptLoop(conceptNames, transactionsLoss, <<>>, 0)

aggregateOf(transactionsEventLoss, transactionsEventProfit) ==
    LET caixaGross ==
            calulcateGross(transactionsEventLoss, transactionsEventProfit, CAIXA)
        paypalGross ==
            calulcateGross(transactionsEventLoss, transactionsEventProfit, PAYPAL)
        grossLoss == caixaGross.grossLoss + paypalGross.grossLoss
        grossProfit == caixaGross.grossProfit + paypalGross.grossProfit
        conceptNames == getEventConceptNames(transactionsEventLoss)
        net == calculateEventLossConcepts(conceptNames, transactionsEventLoss)
    IN [transactionsProfit |-> transactionsEventProfit,
        transactionsLoss |-> transactionsEventLoss,
        caixaGross |-> caixaGross,
        paypalGross |-> paypalGross,
        totalGrossLoss |-> grossLoss,
        totalGrossProfit |-> grossProfit,
        totalGrossBalance |-> grossProfit + grossLoss,
        netLossConcepts |-> net.concepts,
        netLossTotal |-> net.total]

calculateEventLossIncludesZero(eventName, txs) ==
    LET transactionsEvent == SelectSeq(txs, LAMBDA t : t.event = eventName)
    IN aggregateOf(SelectSeq(transactionsEvent, LAMBDA t : t.amount <= 0),
                   SelectSeq(transactionsEvent, LAMBDA t : t.amount > 0))

calculateEvent(eventName, txs) ==
    LET transactionsEvent == SelectSeq(txs, LAMBDA t : t.event = eventName)
    IN aggregateOf(SelectSeq(transactionsEvent, LAMBDA t : t.amount < 0),
                   SelectSeq(transactionsEvent, LAMBDA t : t.amount > 0))

----------------------------------------------------------------------------
(* printTrans: transactions.sort(key=date) is a stable sort, in place, of  *)
(* the list it is given.                                                   *)

insertByDate(sorted, t) ==
    LET n == Cardinality({i \in 1..Len(sorted) : sorted[i].date <= t.date})
    IN SubSeq(sorted, 1, n) \o <<t>> \o SubSeq(sorted, n + 1, Len(sorted))

RECURSIVE sortLoop(_, _)
sortLoop(ts, sorted) ==
    IF ts = <<>> THEN sorted
    ELSE sortLoop(Tail(ts), insertByDate(sorted, Head(ts)))

sortByDate(ts) == sortLoop(ts, <<>>)

----------------------------------------------------------------------------
(* writeEvents and writeLossProfit.  A section is the rows one loop over   *)
(* eventNames writes; a row holds the event name and the cells written.    *)

RECURSIVE sumInts(_)
sumInts(xs) == IF xs = <<>> THEN 0 ELSE Head(xs) + sumInts(Tail(xs))

isOrdinary(eventName, taxes, grants) ==
    eventName \notin taxes /\ eventName \notin grants

isGrant(eventName, taxes, grants) == eventName \in grants

isTax(eventName, taxes, grants) == eventName \in taxes

balanceRow(eventName, bal) ==
    [name |-> eventName,
     caixa |-> formatAmount(bal[eventName].caixaGross.grossBalance),
     paypal |-> formatAmount(bal[eventName].paypalGross.grossBalance),
     total |-> formatAmount(bal[eventName].totalGrossBalance)]

\* what one loop adds to totalCaixa, totalPaypal and total
balanceSum(names, bal) ==
    [caixa |-> sumInts([i \in 1..Len(names) |->
                            bal[names[i]].caixaGross.grossBalance]),
     paypal |-> sumInts([i \in 1..Len(names) |->
                            bal[names[i]].paypalGross.grossBalance]),
     total |-> sumInts([i \in 1..Len(names) |->
                            bal[names[i]].totalGrossBalance])]

addTotals(a, b) ==
    [caixa |-> a.caixa + b.caixa,
     paypal |-> a.paypal + b.paypal,
     total |-> a.total + b.total]

totalCells(t) ==
    [caixa |-> formatAmount(t.caixa),
     paypal |-> formatAmount(t.paypal),
     total |-> formatAmount(t.total)]

NoSummary ==
    [written |-> FALSE, ordinary |-> <<>>, grants |-> <<>>, taxes |-> <<>>,
     grossTotal |-> [caixa |-> 0, paypal |-> 0, total |-> 0],
     grossCells |-> <<>>,
     netTotal |-> [caixa |-> 0, paypal |-> 0, total |-> 0],
     netCells |-> <<>>]

\* writeEvents up to the 'Net Total' row
writeEvents(names, bal, taxes, grants) ==
    LET ord == SelectSeq(names, LAMBDA e : isOrdinary(e, taxes, grants))
        gra == SelectSeq(names, LAMBDA e : isGrant(e, taxes, grants))
        tax == SelectSeq(names, LAMBDA e : isTax(e, taxes, grants))
        gross == addTotals(balanceSum(ord, bal), balanceSum(gra, bal))
        net == addTotals(gross, balanceSum(tax, bal))
    IN [written |-> TRUE,
        ordinary |-> [i \in 1..Len(ord) |-> balanceRow(ord[i], bal)],
        grants |-> [i \in 1..Len(gra) |-> balanceRow(gra[i], bal)],
        taxes |-> [i \in 1..Len(tax) |-> balanceRow(tax[i], bal)],
        grossTotal |-> gross,
        grossCells |-> totalCells(gross),
        netTotal |-> net,
        netCells |-> totalCells(net)]

NoLiquidity == [read |-> FALSE, initial |-> <<>>, final |-> <<>>,
                theoretical |-> <<>>, real |-> <<>>]

\* writeEvents after the four prompts: the liquidity rows
writeLiquidity(initialBank, finalBank, initialPaypal, finalPaypal, net) ==
    [read |-> TRUE,
     initial |-> <<formatAmount(initialBank), formatAmount(initialPaypal),
                   formatAmount(initialPaypal + initialBank)>>,
     final |-> <<formatAmount(finalBank), formatAmount(finalPaypal),
                 formatAmount(finalPaypal + finalBank)>>,
     theoretical |-> <<formatAmount(finalBank - initialBank),
                       formatAmount(finalPaypal - initialPaypal),
                       formatAmount(finalPaypal + finalBank
                                    - initialBank - initialPaypal)>>,
     real |-> <<formatAmount(net.caixa), formatAmount(net.paypal),
                formatAmount(net.total)>>]

NoLossProfit ==
    [written |-> FALSE, sells |-> <<>>, grants |-> <<>>, incomeTotal |-> 0,
     expenses |-> <<>>, lossTotal |-> 0, resultBeforeTax |-> 0,
     taxes |-> <<>>, accountResult |-> 0, accountCell |-> <<>>]

\* the figure of each of the events a loop of writeLossProfit visits
figures(names, bal, field) ==
    [i \in 1..Len(names) |->
        CASE field = "profit" -> bal[names[i]].totalGrossProfit
          [] field = "loss" -> bal[names[i]].totalGrossLoss
          [] field = "balance" -> bal[names[i]].totalGrossBalance]

figureRows(names, bal, field) ==
    [i \in 1..Len(names) |->
        [name |-> names[i],
         cell |-> formatAmount(figures(names, bal, field)[i])]]

writeLossProfitGrantBalance(names, bal, taxes, grants) ==
    LET ord == SelectSeq(names, LAMBDA e : isOrdinary(e, taxes, grants))
        gra == SelectSeq(names, LAMBDA e : isGrant(e, taxes, grants))
        tax == SelectSeq(names, LAMBDA e : isTax(e, taxes, grants))
        totalProfit == sumInts(figures(ord, bal, "profit"))
                       + sumInts(figures(gra, bal, "balance"))
        lossOrdinary == sumInts(figures(ord, bal, "loss"))
        totalLoss == lossOrdinary + sumInts(figures(tax, bal, "balance"))
    IN [written |-> TRUE,
        sells |-> figureRows(ord, bal, "profit"),
        grants |-> figureRows(gra, bal, "balance"),
        incomeTotal |-> totalProfit,
        expenses |-> figureRows(ord, bal, "loss"),
        lossTotal |-> lossOrdinary,
        resultBeforeTax |-> totalProfit + lossOrdinary,
        taxes |-> figureRows(tax, bal, "balance"),
        accountResult |-> totalProfit + totalLoss,
        accountCell |-> formatAmount(totalProfit + totalLoss)]

writeLossProfit(names, bal, taxes, grants) ==
    LET ord == SelectSeq(names, LAMBDA e : isOrdinary(e, taxes, grants))
        gra == SelectSeq(names, LAMBDA e : isGrant(e, taxes, grants))
        tax == SelectSeq(names, LAMBDA e : isTax(e, taxes, grants))
        totalProfit == sumInts(figures(ord, bal, "profit"))
                       + sumInts(figures(gra, bal, "profit"))
        lossOrdinary == sumInts(figures(ord, bal, "loss"))
        totalLoss == lossOrdinary + sumInts(figures(tax, bal, "balance"))
    IN [written |-> TRUE,
        sells |-> figureRows(ord, bal, "profit"),
        grants |-> figureRows(gra, bal, "profit"),
        incomeTotal |-> totalProfit,
        expenses |-> figureRows(ord, bal, "loss"),
        lossTotal |-> lossOrdinary,
        resultBeforeTax |-> totalProfit + lossOrdinary,
        taxes |-> figureRows(tax, bal, "balance"),
        accountResult |-> totalProfit + totalLoss,
        accountCell |-> formatAmount(totalProfit + totalLoss)]

----------------------------------------------------------------------------
(* Inputs: the files, the name lists and the console answers.              *)

RECURSIVE Join(_, _)
Join(fields, sep) ==
    IF Len(fields) = 0 THEN <<>>
    ELSE IF Len(fields) = 1 THEN fields[1]
    ELSE fields[1] \o <<sep>> \o Join(Tail(fields), sep)

\* a data line as the file holds it, with its line terminator
MkLine(fields) == Join(fields, ";") \o <<NL>>

SeqsUpTo(S, n) == UNION {[1..m -> S] : m \in 0..n}

EvA == <<"A">>
EvB == <<"B">>
EvC == <<"C">>
Con1 == <<"f", "o", "o", "d">>
Con2 == <<"r", "e", "n", "t">>
CASH == <<"C", "A", "S", "H">>
Day1 == <<"1", "5", "/", "0", "1", "/", "2", "0", "2", "3">>
Day2 == <<"0", "1", "/", "0", "2", "/", "2", "0", "2", "3">>
Yes == <<"Y">>
No == <<"N">>

Tx(date, amount, event, concept, advance, origin) ==
    MkLine(<<(<<"m">>), date, (<<"i">>), amount, (<<"n">>), event, concept,
             advance, origin, (<<"k">>)>>)

Header == <<"h", ";", "h", NL>>

SampleLines ==
    { Tx(Day2, <<"-", "1", "0", ",", "0", "0">>, EvA, Con1, No, CAIXA),
      Tx(Day1, <<"-", "5", ",", "0", "0">>, EvA, Con2, Yes, PAYPAL),
      Tx(Day1, <<"-", "2", ",", "0", "0">>, EvA, Con1, No, CAIXA),
      Tx(Day1, <<"5", ",", "0", "0">>, EvA, Con1, No, PAYPAL),
      Tx(Day1, <<"-", "1", ",", "0", "0">>, EvB, Con1, No, CASH),
      Tx(Day1, <<"0", ",", "0", "0">>, EvB, Con2, No, CAIXA),
      Tx(Day2, <<"2", ".", "0", "0", "0", ",", "0", "0">>, EvC, Con1, No, CAIXA),
      Tx(Day1, <<"x">>, EvA, Con1, No, CAIXA) }

Files == {<<Header, Header>> \o d : d \in SeqsUpTo(SampleLines, MaxLines)}

\* --grants and --taxes, as <<grants, taxes>>
NameLists ==
    { <<{EvA}, {EvC}>>, <<{EvC}, {EvB}>>, <<{EvB}, {EvC}>>, <<{<<"Z">>}, {}>>,
      <<{EvA}, {EvA}>>, <<{EvA, EvB}, {EvB, EvC}>> }

\* what the user may type at a prompt
Answers == { <<"5", "0">>, <<"x">> }

----------------------------------------------------------------------------
(* The main script. *)

CodecIdle ==
    /\ cpc = "idle" /\ cInt = 0 /\ cStr = <<>> /\ cRes = Err

MainStart ==
    /\ pc = "parse"
    /\ transactions = <<>>
    /\ eventNames = <<>>
    /\ balances = <<>>
    /\ sheets = <<>>
    /\ summary = NoSummary
    /\ liquidity = NoLiquidity
    /\ lossProfit = NoLossProfit
    /\ saved = FALSE

Init ==
    /\ file \in Files
    /\ \E nl \in NameLists : grantNames = nl[1] /\ taxNames = nl[2]
    /\ MainStart
    /\ CodecIdle

\* where the script goes when a step ends: on, or out with the exception
afterStepAlwaysOn(ok, next) == next

afterStep(ok, next) == IF ok THEN next ELSE "failed"

\* line 649
Parse ==
    /\ pc = "parse"
    /\ LET r == parseTransactions(file)
       IN /\ transactions' = r.transactions
          /\ eventNames' = r.eventNames
          /\ pc' = afterStep(r.ok, IF r.eventNames = <<>> THEN "summary"
                                   ELSE "calc")
    /\ UNCHANGED <<file, grantNames, taxNames, balances, sheets, summary,
                   liquidity, lossProfit, saved>>
    /\ UNCHANGED codecVars

\* the event of the current iteration of the loop of line 654
currentEvent == eventNames[Len(sheets) + 1]

\* line 655
Calculate ==
    /\ pc = "calc"
    /\ balances' = (currentEvent :> calculateEvent(currentEvent, transactions))
                   @@ balances
    /\ pc' = "sheet"
    /\ UNCHANGED <<file, grantNames, taxNames, transactions, eventNames,
                   sheets, summary, liquidity, lossProfit, saved>>
    /\ UNCHANGED codecVars

\* lines 656-695: the event's sheet; printTrans sorts the two lists it is given
WriteSheet ==
    /\ pc = "sheet"
    /\ sheets' = Append(sheets, currentEvent)
    /\ balances' =
         [balances EXCEPT
            ![currentEvent].transactionsLoss = sortByDate(@),
            ![currentEvent].transactionsProfit = sortByDate(@)]
    /\ pc' = IF Len(sheets') = Len(eventNames) THEN "summary" ELSE "calc"
    /\ UNCHANGED <<file, grantNames, taxNames, transactions, eventNames,
                   summary, liquidity, lossProfit, saved>>
    /\ UNCHANGED codecVars

WriteEventsDefersRows ==
    /\ pc = "summary"
    /\ pc' = "prompt"
    /\ UNCHANGED <<file, grantNames, taxNames, transactions, eventNames,
                   balances, sheets, summary, liquidity, lossProfit, saved>>
    /\ UNCHANGED codecVars

\* lines 698-699, writeEvents up to its first prompt
WriteEvents ==
    /\ pc = "summary"
    /\ summary' = writeEvents(eventNames, balances, taxNames, grantNames)
    /\ pc' = "prompt"
    /\ UNCHANGED <<file, grantNames, taxNames, transactions, eventNames,
                   balances, sheets, liquidity, lossProfit, saved>>
    /\ UNCHANGED codecVars

\* writeEvents from its four prompts to its end
ReadBalances ==
    /\ pc = "prompt"
    /\ \E a \in [1..4 -> Answers] :
         LET initialBank == PyInt(a[1])
             finalBank == PyInt(a[2])
             initialPaypal == PyInt(a[3])
             finalPaypal == PyInt(a[4])
             ok == /\ initialBank.ok /\ finalBank.ok
                   /\ initialPaypal.ok /\ finalPaypal.ok
         IN /\ pc' = afterStep(ok, "lossprofit")
            /\ liquidity' =
                 IF ok
                 THEN writeLiquidity(initialBank.val, finalBank.val,
                                     initialPaypal.val, finalPaypal.val,
                                     summary.netTotal)
                 ELSE liquidity
    /\ UNCHANGED <<file, grantNames, taxNames, transactions, eventNames,
                   balances, sheets, summary, lossProfit, saved>>
    /\ UNCHANGED codecVars

\* lines 702-703
WriteLossProfit ==
    /\ pc = "lossprofit"
    /\ lossProfit' = writeLossProfit(eventNames, balances, taxNames, grantNames)
    /\ pc' = "save"
    /\ UNCHANGED <<file, grantNames, taxNames, transactions, eventNames,
                   balances, sheets, summary, liquidity, saved>>
    /\ UNCHANGED codecVars

\* line 705
Save ==
    /\ pc = "save"
    /\ saved' = TRUE
    /\ pc' = "done"
    /\ UNCHANGED <<file, grantNames, taxNames, transactions, eventNames,
                   balances, sheets, summary, liquidity, lossProfit>>
    /\ UNCHANGED codecVars

Next ==
    \/ Parse
    \/ Calculate
    \/ WriteSheet
    \/ WriteEvents
    \/ ReadBalances
    \/ WriteLossProfit
    \/ Save

Spec == Init /\ [][Next]_vars

----------------------------------------------------------------------------
(* The codec on its own: formatAmount of an integer followed by            *)
(* parseAmount of the result, and parseAmount of a string.                 *)

AmountAlphabet == {"1", "2", "-", ",", ".", "+", " ", "_", "x"}

AmountStrings ==
    SeqsUpTo(AmountAlphabet, MaxLen)
    \cup { <<"1", ".", "2", "3", "4", ",", "5", "6">>,
           <<"-", "1", "2", ",", "0", "0">>,
           <<"-", "-", "1", ",", "0", "0">> }

Cents == (-MaxCents..MaxCents) \cup {12345, -12345}

MainIdle ==
    /\ pc = "idle"
    /\ file = <<>>
    /\ grantNames = {}
    /\ taxNames = {}
    /\ transactions = <<>>
    /\ eventNames = <<>>
    /\ balances = <<>>
    /\ sheets = <<>>
    /\ summary = NoSummary
    /\ liquidity = NoLiquidity
    /\ lossProfit = NoLossProfit
    /\ saved = FALSE

InitCodec ==
    /\ MainIdle
    /\ cRes = Err
    /\ \/ cpc = "format" /\ cInt \in Cents /\ cStr = <<>>
       \/ cpc = "parse" /\ cInt = 0 /\ cStr \in AmountStrings

FormatAmount ==
    /\ cpc = "format"
    /\ cStr' = formatAmount(cInt)
    /\ cpc' = "formatted"
    /\ UNCHANGED <<cInt, cRes>>
    /\ UNCHANGED mainVars

ParseFormatted ==
    /\ cpc = "formatted"
    /\ cRes' = parseAmount(cStr)
    /\ cpc' = "roundtrip"
    /\ UNCHANGED <<cInt, cStr>>
    /\ UNCHANGED mainVars

ParseAmount ==
    /\ cpc = "parse"
    /\ cRes' = parseAmount(cStr)
    /\ cpc' = "parsed"
    /\ UNCHANGED <<cInt, cStr>>
    /\ UNCHANGED mainVars

NextCodec ==
    \/ FormatAmount
    \/ ParseFormatted
    \/ ParseAmount

SpecCodec == InitCodec /\ [][NextCodec]_vars

----------------------------------------------------------------------------
(* parseTransactions on its own, on files that need not be well formed:    *)
(* fewer than two lines, short lines, bad dates and amounts, and a last    *)
(* line that may lack its line terminator.                                 *)

GoodBody ==
    Join(<<(<<"m">>), Day1, (<<"i">>), (<<"-", "1", "0", ",", "0", "0">>),
           (<<"n">>), EvA, Con1, No, CAIXA, (<<"o", "k">>)>>, ";")

ParseBodies ==
    { GoodBody,
      \* an advance, and an empty comment
      Join(<<(<<"m">>), Day2, (<<"i">>), (<<"5", ",", "0", "0">>),
             (<<"n">>), EvB, Con2, Yes, PAYPAL, (<<>>)>>, ";"),
      \* nine fields
      Join(<<(<<"m">>), Day1, (<<"i">>), (<<"5", ",", "0", "0">>),
             (<<"n">>), EvA, Con1, No, CAIXA>>, ";"),
      \* the 31st of February
      Join(<<(<<"m">>), (<<"3", "1", "/", "0", "2", "/", "2", "0", "2", "3">>),
             (<<"i">>), (<<"5", ",", "0", "0">>),
             (<<"n">>), EvA, Con1, No, CAIXA, (<<"k">>)>>, ";"),
      \* an amount that is no number
      Join(<<(<<"m">>), Day1, (<<"i">>), (<<"5", ",", "x", "0">>),
             (<<"n">>), EvA, Con1, No, CAIXA, (<<"k">>)>>, ";"),
      \* an empty line
      <<>> }

\* the lines of a text file: each ends with NL, the last one possibly not
ParseFiles ==
    LET bodies == SeqsUpTo(ParseBodies \cup {<<"h">>}, MaxParseLines + 2)
        terminated(b) == [i \in 1..Len(b) |-> b[i] \o <<NL>>]
        unterminated(b) ==
            [i \in 1..Len(b) |->
                IF i = Len(b) THEN b[i] ELSE b[i] \o <<NL>>]
    IN {terminated(b) : b \in bodies}
       \cup {unterminated(b) : b \in {x \in bodies : x # <<>> /\ x[Len(x)] # <<>>}}

InitParse ==
    /\ file \in ParseFiles
    /\ grantNames = {}
    /\ taxNames = {}
    /\ MainStart
    /\ CodecIdle

NextParse == Parse

SpecParse == InitParse /\ [][NextParse]_vars

----------------------------------------------------------------------------
(* Properties. *)

\* every event of eventNames has its aggregate and its sheet
Computed == pc \in {"summary", "prompt", "lossprofit", "save", "done"}

Channels == {CAIXA, PAYPAL}

EventsOf(ts) == {ts[i].event : i \in 1..Len(ts)}

RECURSIVE sumGrossBalance(_)
sumGrossBalance(S) ==
    IF S = {} THEN 0
    ELSE LET e == CHOOSE x \in S : TRUE
         IN balances[e].totalGrossBalance + sumGrossBalance(S \ {e})

\* C1 as stated: once every event is aggregated, the total gross balances
\* of the distinct events add up to the sum of the amounts of all parsed
\* transactions, whatever their origin.
C1_GrossBalancesSumToAllAmounts ==
    Computed =>
        sumGrossBalance(EventsOf(transactions)) = sumAmounts(transactions)

\* C1 amended: once every event is aggregated, the total gross balances of
\* the distinct events add up to the sum of the amounts of the transactions
\* whose origin is CAIXA or PAYPAL (so to the sum of all amounts when every
\* origin is one of the two); a transaction of another origin is in no
\* gross figure.
C1_GrossBalancesSumToChannelAmounts ==
    Computed =>
        sumGrossBalance(EventsOf(transactions))
            = sumAmounts(SelectSeq(transactions,
                                   LAMBDA t : t.origin \in Channels))

C1_Witness ==
    /\ Computed
    /\ Len(eventNames) >= 2
    /\ \A i \in 1..Len(transactions) : transactions[i].origin \in Channels
    /\ sumAmounts(transactions) = 199000
    /\ sumGrossBalance(EventsOf(transactions)) = 199000

SectionNames(rows) == {rows[i].name : i \in 1..Len(rows)}

TimesListed(e, rows) == Cardinality({i \in 1..Len(rows) : rows[i].name = e})

\* C2: in the Final Summary and in Loss&Profit every event is listed in
\* exactly one of the ordinary, grant and tax sections, and an event named
\* in both --grants and --taxes is listed in the grant section only.
C2_SectionsPartitionEvents ==
    /\ summary.written =>
         \A e \in EventsOf(transactions) :
            /\ TimesListed(e, summary.ordinary) + TimesListed(e, summary.grants)
                 + TimesListed(e, summary.taxes) = 1
            /\ e \in grantNames \cap taxNames =>
                 /\ TimesListed(e, summary.grants) = 1
                 /\ TimesListed(e, summary.taxes) = 0
    /\ lossProfit.written =>
         \A e \in EventsOf(transactions) :
            /\ Cardinality({r \in {"o", "g", "t"} :
                    \/ r = "o" /\ e \in SectionNames(lossProfit.sells)
                                      \cup SectionNames(lossProfit.expenses)
                    \/ r = "g" /\ e \in SectionNames(lossProfit.grants)
                    \/ r = "t" /\ e \in SectionNames(lossProfit.taxes)}) = 1
            /\ e \in grantNames \cap taxNames =>
                 /\ e \in SectionNames(lossProfit.grants)
                 /\ e \notin SectionNames(lossProfit.taxes)

\* the three categories as the claims read them: a grant name is a grant
\* event, a tax name that is no grant name is a tax event
isTaxOnly(eventName) == eventName \in taxNames /\ eventName \notin grantNames

categorySum(names) == balanceSum(names, balances)

\* C3: the Gross Total row holds the sums of the gross balances of the
\* ordinary and the grant events and of no tax event, the Net Total row
\* holds Gross Total plus the gross balances of the tax events, which is
\* the sum over all the events, each counted once.
C3_CheckpointTotals ==
    summary.written =>
        LET notTax == SelectSeq(eventNames, LAMBDA e : ~isTaxOnly(e))
            tax == SelectSeq(eventNames, LAMBDA e : isTaxOnly(e))
        IN /\ summary.grossTotal = categorySum(notTax)
           /\ summary.grossCells = totalCells(categorySum(notTax))
           /\ summary.netTotal
                = addTotals(summary.grossTotal, categorySum(tax))
           /\ summary.netTotal = categorySum(eventNames)
           /\ summary.netCells = totalCells(categorySum(eventNames))

GrossOk(g) ==
    /\ g.grossBalance = g.grossLoss + g.grossProfit
    /\ g.grossLoss <= 0
    /\ g.grossProfit >= 0

\* C4: in every aggregate each of caixaGross, paypalGross and the total
\* figures has balance = loss + profit with loss <= 0 <= profit, and each
\* total figure is the sum of the caixaGross and paypalGross figure; an
\* event of exactly -1000 CAIXA and 500 PAYPAL has caixa {-1000, 0, -1000},
\* paypal {0, 500, 500} and total balance -500.
C4_GrossFigures ==
    \A e \in DOMAIN balances :
        LET b == balances[e]
            own == SelectSeq(transactions, LAMBDA t : t.event = e)
        IN /\ GrossOk(b.caixaGross)
           /\ GrossOk(b.paypalGross)
           /\ b.totalGrossBalance = b.totalGrossLoss + b.totalGrossProfit
           /\ b.totalGrossLoss <= 0
           /\ b.totalGrossProfit >= 0
           /\ b.totalGrossLoss
                = b.caixaGross.grossLoss + b.paypalGross.grossLoss
           /\ b.totalGrossProfit
                = b.caixaGross.grossProfit + b.paypalGross.grossProfit
           /\ b.totalGrossBalance
                = b.caixaGross.grossBalance + b.paypalGross.grossBalance
           /\ ( /\ Len(own) = 2
                /\ own[1].amount = -1000 /\ own[1].origin = CAIXA
                /\ own[2].amount = 500 /\ own[2].origin = PAYPAL )
              => /\ b.caixaGross = [grossLoss |-> -1000, grossProfit |-> 0,
                                    grossBalance |-> -1000]
                 /\ b.paypalGross = [grossLoss |-> 0, grossProfit |-> 500,
                                     grossBalance |-> 500]
                 /\ b.totalGrossBalance = -500

C4_Witness ==
    \E e \in DOMAIN balances :
        LET own == SelectSeq(transactions, LAMBDA t : t.event = e)
        IN /\ Len(own) = 2
           /\ own[1].amount = -1000 /\ own[1].origin = CAIXA
           /\ own[2].amount = 500 /\ own[2].origin = PAYPAL
           /\ balances[e].totalGrossBalance = -500

----------------------------------------------------------------------------

\* a line without its terminator, and its fields
LineContent(line) ==
    IF line # <<>> /\ line[Len(line)] = NL THEN ButLast(line, 1) ELSE line

FieldsOf(line) == Split(LineContent(line), ";")

LineIsBad(line) ==
    \/ Len(FieldsOf(line)) < 10
    \/ ~parseDate(FieldsOf(line)[2]).ok
    \/ ~parseAmount(FieldsOf(line)[4]).ok

\* C5: parseTransactions skips the first two lines; then either the run
\* fails, or every remaining line gave, in order, one transaction whose
\* attributes are the line's first ten fields (date, amount and advance
\* converted, the others unchanged); a line of fewer than ten fields or
\* with a bad date or amount makes the run fail.
C5_ParsingIsTotal ==
    pc # "parse" =>
        LET data == Drop(file, 2)
        IN /\ (\E i \in 1..Len(data) : LineIsBad(data[i])) => pc = "failed"
           /\ pc # "failed" =>
                /\ Len(transactions) = Len(data)
                /\ \A i \in 1..Len(data) :
                     LET f == FieldsOf(data[i])
                         t == transactions[i]
                     IN /\ t.movement = f[1]
                        /\ t.date = parseDate(f[2]).val
                        /\ t.info = f[3]
                        /\ t.amount = parseAmount(f[4]).val
                        /\ t.name = f[5]
                        /\ t.event = f[6]
                        /\ t.concept = f[7]
                        /\ t.advance = (f[8] = <<"Y">>)
                        /\ t.origin = f[9]
                        /\ t.comment = f[10]

\* C6: the workbook is saved only after the parsing, the aggregation of
\* every event, the Final Summary with its four answers and the
\* Loss&Profit sheet have all completed; a run that failed has saved
\* nothing and does nothing more.
C6_SaveOnlyAfterEverything ==
    /\ saved =>
         /\ parseTransactions(file).ok
         /\ DOMAIN balances = EventsOf(transactions)
         /\ Len(sheets) = Len(eventNames)
         /\ summary.written
         /\ liquidity.read
         /\ lossProfit.written
    /\ pc = "failed" => ~saved /\ ~ENABLED Next

C6_Witness ==
    /\ pc = "failed"
    /\ summary.written
    /\ Len(sheets) >= 2
    /\ ~liquidity.read
    /\ ~saved

----------------------------------------------------------------------------

Abs(x) == IF x < 0 THEN -x ELSE x

\* C7 as stated: parseAmount of the string formatAmount(x) succeeds and
\* returns a value of absolute value |x|.
C7_RoundTripInAbsoluteValue ==
    cpc = "roundtrip" => cRes.ok /\ Abs(cRes.val) = Abs(cInt)

\* C7 amended: parseAmount(formatAmount(x)) succeeds only for x = 0, where
\* it returns 0; for every other x the formatted string ends with " EURO"
\* and parseAmount fails on it, and parseAmount of the string without that
\* suffix returns x.
C7_RoundTripOnlyWithoutSuffix ==
    cpc = "roundtrip" =>
        IF cInt = 0 THEN cRes = Ok(0)
        ELSE /\ ~cRes.ok
             /\ Last(cStr, 2) = <<" ", EURO>>
             /\ parseAmount(ButLast(cStr, 2)) = Ok(cInt)

C7_Witness ==
    /\ cpc = "roundtrip"
    /\ cInt = -12345
    /\ cStr = <<"-", "1", "2", "3", ",", "4", "5", " ", EURO>>
    /\ ~cRes.ok

\* C8: parseAmount returns the signed number made of the digits left when
\* the leading '-', every '.' and every ',' are removed, and fails when
\* what is left is empty or holds anything but digits.
C8_ParseAmountStrict ==
    cpc = "parsed" =>
        LET negative == cStr # <<>> /\ cStr[1] = "-"
            body == IF negative THEN Tail(cStr) ELSE cStr
            stripped == Remove(Remove(body, "."), ",")
        IN IF stripped # <<>> /\ AllDigits(stripped)
           THEN cRes = Ok((IF negative THEN -1 ELSE 1) * DigitsValue(stripped))
           ELSE ~cRes.ok

----------------------------------------------------------------------------

\* the loss transactions of an event, in input order
LossOf(e) ==
    SelectSeq(transactions, LAMBDA t : t.event = e /\ t.amount < 0)

FirstWith(ts, c) ==
    CHOOSE i \in 1..Len(ts) :
        ts[i].concept = c /\ \A j \in 1..(i - 1) : ts[j].concept # c

\* C9: netLossConcepts of an event holds each concept of the event's loss
\* transactions once, in the order of first occurrence in the input; an
\* entry's amount is the sum of the event's loss amounts of that concept
\* that are no advance; netLossTotal is the sum of the entries, that is of
\* all loss amounts of the event that are no advance.
C9_NetLossConcepts ==
    \A e \in DOMAIN balances :
        LET loss == LossOf(e)
            cs == balances[e].netLossConcepts
        IN /\ {cs[i].name : i \in 1..Len(cs)}
                = {loss[i].concept : i \in 1..Len(loss)}
           /\ \A i, j \in 1..Len(cs) :
                i < j => /\ cs[i].name # cs[j].name
                         /\ FirstWith(loss, cs[i].name)
                              < FirstWith(loss, cs[j].name)
           /\ \A i \in 1..Len(cs) :
                cs[i].amount
                  = sumAmounts(SelectSeq(loss, LAMBDA t :
                        t.concept = cs[i].name /\ ~t.advance))
           /\ balances[e].netLossTotal
                = sumInts([i \in 1..Len(cs) |-> cs[i].amount])
           /\ balances[e].netLossTotal
                = sumAmounts(SelectSeq(loss, LAMBDA t : ~t.advance))

C9_Witness ==
    \E e \in DOMAIN balances :
        /\ Len(LossOf(e)) = 3
        /\ balances[e].netLossConcepts
             = << [name |-> Con1, amount |-> -1200],
                  [name |-> Con2, amount |-> 0] >>
        /\ balances[e].netLossTotal = -1200

Occurrences(t, ts) == Cardinality({i \in 1..Len(ts) : ts[i] = t})

\* C10: over the aggregates of all the events, a transaction of negative
\* amount is in the transactionsLoss of its own event and in no other
\* list, one of positive amount in the transactionsProfit of its own event
\* and in no other list, and one of amount 0 in no list.
C10_SignPartition ==
    Computed =>
        \A i \in 1..Len(transactions) : \A e \in DOMAIN balances :
            LET t == transactions[i]
                own == e = t.event
            IN /\ t.event \in DOMAIN balances
               /\ Occurrences(t, balances[e].transactionsLoss)
                    = IF own /\ t.amount < 0
                      THEN Occurrences(t, transactions) ELSE 0
               /\ Occurrences(t, balances[e].transactionsProfit)
                    = IF own /\ t.amount > 0
                      THEN Occurrences(t, transactions) ELSE 0

C10_Witness ==
    /\ Computed
    /\ Cardinality(DOMAIN balances) >= 2
    /\ \E i, j, k \in 1..Len(transactions) :
         /\ transactions[i].amount < 0
         /\ transactions[j].amount > 0
         /\ transactions[k].amount = 0

----------------------------------------------------------------------------

FirstOfEvent(e) ==
    CHOOSE i \in 1..Len(transactions) :
        transactions[i].event = e /\ \A j \in 1..(i - 1) : transactions[j].event # e

\* the events whose aggregate the main loop has stored so far
Aggregated ==
    {eventNames[i] : i \in 1..(Len(sheets) + IF pc = "sheet" THEN 1 ELSE 0)}

\* C11: eventNames has no duplicates, holds exactly the events of the
\* parsed transactions and is ordered by first occurrence in the input;
\* the main loop creates one aggregate and one sheet per entry of
\* eventNames, in that order, and has done so for every entry when it ends.
C11_EventNamesAndLoop ==
    /\ \A i, j \in 1..Len(eventNames) :
         i < j => /\ eventNames[i] # eventNames[j]
                  /\ FirstOfEvent(eventNames[i]) < FirstOfEvent(eventNames[j])
    /\ {eventNames[i] : i \in 1..Len(eventNames)} = EventsOf(transactions)
    /\ Len(sheets) <= Len(eventNames)
    /\ sheets = SubSeq(eventNames, 1, Len(sheets))
    /\ DOMAIN balances = Aggregated
    /\ Computed => sheets = eventNames

C11_Witness ==
    /\ Computed
    /\ Len(transactions) = 3
    /\ transactions[1].event = EvB
    /\ transactions[2].event = EvA
    /\ transactions[3].event = EvB
    /\ eventNames = <<EvB, EvA>>
    /\ sheets = <<EvB, EvA>>
    /\ DOMAIN balances = {EvA, EvB}

----------------------------------------------------------------------------

\* C12: no step changes the parsed transactions or event names once
\* parseTransactions has returned them, nor any field of an aggregate
\* already stored in balances, the content and the order of its
\* transactionsLoss and transactionsProfit lists included.
C12_NoInPlaceMutation ==
    [][ /\ pc # "parse" =>
             /\ transactions' = transactions
             /\ eventNames' = eventNames
        /\ \A e \in DOMAIN balances : balances'[e] = balances[e] ]_vars

----------------------------------------------------------------------------

\* the step in which the four answers are read
PromptStep == pc = "prompt" /\ pc' # pc

AllAggregated ==
    /\ DOMAIN balances = {eventNames[i] : i \in 1..Len(eventNames)}
    /\ Len(sheets) = Len(eventNames)

\* C13 as stated: the four prompts come after the aggregates of all the
\* events and before any event row, Gross Total or Net Total value of the
\* Final Summary and any Loss&Profit value is written.
C13_PromptsBeforeAnyFigure ==
    [][ PromptStep =>
          /\ AllAggregated
          /\ ~summary.written
          /\ ~lossProfit.written ]_vars

\* C13 amended: the four prompts come after the aggregates of all the
\* events and after the event rows, the Gross Total and the Net Total of
\* the Final Summary are written, and before the liquidity rows of the
\* Final Summary, any Loss&Profit value and the save.
C13_PromptsAfterSummaryRows ==
    [][ /\ liquidity' # liquidity => PromptStep
        /\ lossProfit' # lossProfit => liquidity.read
        /\ PromptStep =>
             /\ AllAggregated
             /\ summary.written
             /\ \A i \in 1..Len(eventNames) :
                  eventNames[i] \in SectionNames(summary.ordinary)
                                    \cup SectionNames(summary.grants)
                                    \cup SectionNames(summary.taxes)
             /\ summary.grossCells # <<>>
             /\ summary.netCells # <<>>
             /\ liquidity = NoLiquidity
             /\ ~lossProfit.written
             /\ ~saved ]_vars

C13_Witness ==
    /\ pc = "lossprofit"
    /\ liquidity.read
    /\ Len(summary.ordinary) >= 1
    /\ Len(summary.grants) >= 1
    /\ Len(summary.taxes) >= 1
    /\ ~lossProfit.written

----------------------------------------------------------------------------

GrantEvents == SelectSeq(eventNames, LAMBDA e : e \in grantNames)

GrantLoss ==
    sumInts([i \in 1..Len(GrantEvents) |->
                balances[GrantEvents[i]].totalGrossLoss])

\* a grant event has a loss transaction whose origin is in the set
GrantHasLoss(origins) ==
    \E i \in 1..Len(transactions) :
        /\ transactions[i].event \in grantNames
        /\ transactions[i].amount < 0
        /\ transactions[i].origin \in origins

AllOrigins == {transactions[i].origin : i \in 1..Len(transactions)}

\* C14 as stated: with disjoint name lists the Account Result of
\* Loss&Profit is the Net Total of the Final Summary minus the total gross
\* losses of the grant events, and the two are equal exactly when no
\* grant event has a loss transaction.
C14_AccountResultVersusNetTotal ==
    (lossProfit.written /\ grantNames \cap taxNames = {}) =>
        /\ lossProfit.accountResult = summary.netTotal.total - GrantLoss
        /\ lossProfit.accountCell
             = formatAmount(summary.netTotal.total - GrantLoss)
        /\ (lossProfit.accountResult = summary.netTotal.total)
             <=> ~GrantHasLoss(AllOrigins)

\* C14 amended: with disjoint name lists the Account Result of Loss&Profit
\* is the Net Total of the Final Summary minus the total gross losses of
\* the grant events, and the two are equal exactly when no grant event
\* has a loss transaction of origin CAIXA or PAYPAL.
C14_AccountResultVersusNetTotalChannels ==
    (lossProfit.written /\ grantNames \cap taxNames = {}) =>
        /\ lossProfit.accountResult = summary.netTotal.total - GrantLoss
        /\ lossProfit.accountCell
             = formatAmount(summary.netTotal.total - GrantLoss)
        /\ (lossProfit.accountResult = summary.netTotal.total)
             <=> ~GrantHasLoss(Channels)

C14_Witness ==
    /\ lossProfit.written
    /\ grantNames \cap taxNames = {}
    /\ GrantHasLoss(Channels)
    /\ Len(summary.taxes) >= 1
    /\ GrantLoss < 0
    /\ lossProfit.accountResult # summary.netTotal.total

====
